---- MODULE Spec2Model ----
(***************************************************************************)
(* Staff allotment: the allocation engine (ExamDutyApp.allocate_staff) and *)
(* the run that drives it (ExamDutyApp.generate_allotment_pdf), modelled   *)
(* from src/desktop_app.py.                                                *)
(*                                                                         *)
(* Strings the code transforms (staff names: .strip(); genders: .upper())  *)
(* are sequences of one-character strings, so that the transformations are *)
(* computed and not assumed.  A JSON object is a function whose DOMAIN is  *)
(* the set of keys it has: a record lacking a key is a function without it.*)
(***************************************************************************)
EXTENDS Integers, Sequences, FiniteSets, TLC

\* ------------------------------------------------------------------ bounds
MaxStaff == 3    \* longest staff list
MaxRooms == 2    \* longest room-requirement list of one date

\* ------------------------------------------------------------ value space
F_ == <<"F">>
FEMALE_ == <<"F", "E", "M", "A", "L", "E">>

\* Well-formed staff records.  SC has an untrimmed name and a lower-case
\* gender, as a staff.json not written by upload_staff_file may have.
SA == [staff_name |-> <<"A">>, staff_dept |-> "CSE", staff_gender |-> <<"F">>]
SB == [staff_name |-> <<"B">>, staff_dept |-> "ECE", staff_gender |-> <<"M">>]
SC == [staff_name |-> <<" ", "C">>, staff_dept |-> "ECE", staff_gender |-> <<"f">>]
\* Staff records lacking a key.
SNoName == [staff_dept |-> "CSE", staff_gender |-> <<"F">>]
SNoGender == [staff_name |-> <<"D">>, staff_dept |-> "CSE"]

WellFormedStaff == {SA, SB, SC}
MalformedStaff == {SNoName, SNoGender}

RoomNos == <<"101", "102", "103">>

\* The room requirement at position i of a list: room_no is the i-th room of
\* the catalogue, the two modifiers are free.
WellFormedRoomsAt(i) ==
    {[room_no |-> RoomNos[i], girls_only |-> g, single_staff |-> s] :
        g \in BOOLEAN, s \in BOOLEAN}

MalformedRoomsAt(i) ==
    { [girls_only |-> FALSE, single_staff |-> FALSE],
      [room_no |-> RoomNos[i], single_staff |-> FALSE],
      [room_no |-> RoomNos[i], girls_only |-> TRUE] }

\* Sequences of length at most n over S.
SeqsUpTo(S, n) == UNION {[1..k -> S] : k \in 0..n}

AllRoomsAt(i) == WellFormedRoomsAt(i) \cup MalformedRoomsAt(i)

\* Requirement lists of length at most n; with_malformed admits records that
\* lack a key.
RoomLists(n, with_malformed) ==
    LET At(i) == IF with_malformed THEN AllRoomsAt(i) ELSE WellFormedRoomsAt(i)
    IN UNION {{l \in [1..k -> UNION {At(i) : i \in 1..k}] :
                  \A i \in 1..k : l[i] \in At(i)} : k \in 0..n}

\* data/excluded_staff.json: absent, or a JSON list of names.
NoExcludedFile == [exists |-> FALSE, names |-> <<>>]
ExcludedFiles ==
    {NoExcludedFile} \cup
    {[exists |-> TRUE, names |-> n] : n \in {<<<<"C">>>>, <<<<"A">>, <<"C">>>>}}

\* --------------------------------------------------------- Python helpers
\* str.strip()
RECURSIVE LStrip(_)
LStrip(s) == IF s # <<>> /\ Head(s) = " " THEN LStrip(Tail(s)) ELSE s

RECURSIVE RStrip(_)
RStrip(s) ==
    IF s # <<>> /\ s[Len(s)] = " " THEN RStrip(SubSeq(s, 1, Len(s) - 1)) ELSE s

Strip(s) == RStrip(LStrip(s))

UpperChar(c) ==
    CASE c = "f" -> "F"
      [] c = "m" -> "M"
      [] c = "a" -> "A"
      [] c = "e" -> "E"
      [] c = "l" -> "L"
      [] c = "n" -> "N"
      [] c = "r" -> "R"
      [] c = "s" -> "S"
      [] OTHER -> c

\* Variant: the gender is compared as stored, without .upper().
Upper_AsStored(s) == s

\* str.upper()
Upper(s) == [i \in DOMAIN s |-> UpperChar(s[i])]

\* dict.get(key, default)
Get(d, key, default) == IF key \in DOMAIN d THEN d[key] ELSE default

\* Variant: every element equal to x is dropped.
ListRemove_All(list, x) == SelectSeq(list, LAMBDA y : y # x)

\* list.remove(x): drops the first element equal to x.
RECURSIVE ListRemove(_, _)
ListRemove(list, x) ==
    IF list = <<>> THEN <<>>
    ELSE IF Head(list) = x THEN Tail(list)
    ELSE <<Head(list)>> \o ListRemove(Tail(list), x)

Range(s) == {s[i] : i \in DOMAIN s}

\* random.shuffle: the rearrangements of 1..n.
Perms(n) == Permutations(1..n)

Shuffle(list, p) == [i \in DOMAIN list |-> list[p[i]]]

\* ------------------------------------------------ allocate_staff, by parts
RoomKeys == {"room_no", "girls_only", "single_staff"}

\* class_info['room_no'], class_info['girls_only'], class_info['single_staff']
\* raise KeyError when the key is absent.
RoomLookupRaises(class_info) == ~(RoomKeys \subseteq DOMAIN class_info)

\* s['staff_name'] raises KeyError when the key is absent.
NameLookupRaises(staff_list) ==
    \E i \in DOMAIN staff_list : "staff_name" \notin DOMAIN staff_list[i]

\* Variant: the name is compared as stored, without .strip().
NotExcluded_Untrimmed(s, excluded_staff) == s.staff_name \notin excluded_staff

\* s['staff_name'].strip() not in excluded_staff
NotExcluded(s, excluded_staff) == Strip(s.staff_name) \notin excluded_staff

\* Variant: the pool is used as it was passed.
PoolAfterExclusion_Unfiltered(staff_list, excluded_file) ==
    [raised |-> FALSE, rebound |-> FALSE, staff_list |-> staff_list]

\* The pool after the exclusion step.  With no exclusion file the parameter
\* is used as it is; with one, staff_list is rebound to a new filtered list.
\*   raised:  the comprehension raised KeyError
\*   rebound: staff_list no longer names the caller's list object
PoolAfterExclusion(staff_list, excluded_file) ==
    IF ~excluded_file.exists
    THEN [raised |-> FALSE, rebound |-> FALSE, staff_list |-> staff_list]
    ELSE IF NameLookupRaises(staff_list)
    THEN [raised |-> TRUE, rebound |-> FALSE, staff_list |-> <<>>]
    ELSE LET excluded_staff == Range(excluded_file.names)
             keep(s) == NotExcluded(s, excluded_staff)
         IN [raised |-> FALSE, rebound |-> TRUE,
             staff_list |-> SelectSeq(staff_list, keep)]

\* s.get('staff_gender', '').upper() in ['F', 'FEMALE']
GenderIsFemale(s) == Upper(Get(s, "staff_gender", <<>>)) \in {F_, FEMALE_}

\* Variant: the girls_only filter is left out.
EligibleStaff_Unfiltered(staff_list, girls_only) == staff_list

\* Variant: a room open to everybody takes the men first.
EligibleStaff_MenFirst(staff_list, girls_only) ==
    IF girls_only THEN SelectSeq(staff_list, GenderIsFemale)
    ELSE SelectSeq(staff_list, LAMBDA s : ~GenderIsFemale(s)) \o
         SelectSeq(staff_list, GenderIsFemale)

EligibleStaff(staff_list, girls_only) ==
    IF girls_only THEN SelectSeq(staff_list, GenderIsFemale) ELSE staff_list

\* Variant: single_staff is ignored.
StaffNeeded_AlwaysTwo(single_staff) == 2

StaffNeeded(single_staff) == IF single_staff THEN 1 ELSE 2

\* Variant: eligible_staff.pop(), taking from the back.
PopFront_Back(eligible_staff) ==
    IF eligible_staff = <<>>
    THEN [raised |-> TRUE, staff |-> <<>>, rest |-> <<>>]
    ELSE [raised |-> FALSE, staff |-> eligible_staff[Len(eligible_staff)],
          rest |-> SubSeq(eligible_staff, 1, Len(eligible_staff) - 1)]

\* eligible_staff.pop(0): the element taken and the list left; IndexError
\* on an empty list.
PopFront(eligible_staff) ==
    IF eligible_staff = <<>>
    THEN [raised |-> TRUE, staff |-> <<>>, rest |-> <<>>]
    ELSE [raised |-> FALSE, staff |-> Head(eligible_staff),
          rest |-> Tail(eligible_staff)]

\* Variant: the selected staff member stays in the pool.
RemoveFromPool_Kept(staff_list, staff) ==
    [raised |-> FALSE, staff_list |-> staff_list]

\* staff_list.remove(staff); ValueError when staff is not in the list.
RemoveFromPool(staff_list, staff) ==
    IF staff \in Range(staff_list)
    THEN [raised |-> FALSE, staff_list |-> ListRemove(staff_list, staff)]
    ELSE [raised |-> TRUE, staff_list |-> staff_list]

\* Variant: the loop does not stop on an empty eligible_staff.
KeepSelecting_UntilNeeded(selected_staff, staff_needed, eligible_staff) ==
    Len(selected_staff) < staff_needed

\* len(selected_staff) < staff_needed and eligible_staff
KeepSelecting(selected_staff, staff_needed, eligible_staff) ==
    Len(selected_staff) < staff_needed /\ eligible_staff # <<>>

\* while ...: staff = eligible_staff.pop(0); selected_staff.append(staff);
\*            staff_list.remove(staff)
RECURSIVE SelectStaff(_, _, _, _)
SelectStaff(selected_staff, eligible_staff, staff_list, staff_needed) ==
    IF KeepSelecting(selected_staff, staff_needed, eligible_staff)
    THEN LET popped == PopFront(eligible_staff)
             removed == RemoveFromPool(staff_list, popped.staff)
         IN IF popped.raised \/ removed.raised
            THEN [raised |-> TRUE, selected_staff |-> selected_staff,
                  staff_list |-> staff_list]
            ELSE SelectStaff(Append(selected_staff, popped.staff), popped.rest,
                             removed.staff_list, staff_needed)
    ELSE [raised |-> FALSE, selected_staff |-> selected_staff,
          staff_list |-> staff_list]

\* Variant: the Assignment is appended whether or not staff was selected.
AppendAllotment_Always(allotments, room_no, selected_staff) ==
    Append(allotments, [room_no |-> room_no, staff |-> selected_staff])

\* if selected_staff: allotments.append({...})
AppendAllotment(allotments, room_no, selected_staff) ==
    IF selected_staff # <<>>
    THEN Append(allotments, [room_no |-> room_no, staff |-> selected_staff])
    ELSE allotments

\* One iteration of "for class_info in classes_list".  st holds the locals:
\* staff_list, allotments, raised, and trace, the history of the rooms
\* processed so far (the pool each room found and the staff it selected).
RoomBody(class_info, st) ==
    IF RoomLookupRaises(class_info)
    THEN [st EXCEPT !.raised = TRUE]
    ELSE LET eligible_staff == EligibleStaff(st.staff_list, class_info.girls_only)
             staff_needed == StaffNeeded(class_info.single_staff)
             sel == SelectStaff(<<>>, eligible_staff, st.staff_list, staff_needed)
         IN IF sel.raised
            THEN [st EXCEPT !.raised = TRUE, !.staff_list = sel.staff_list]
            ELSE [raised |-> FALSE,
                  staff_list |-> sel.staff_list,
                  allotments |-> AppendAllotment(st.allotments, class_info.room_no,
                                                 sel.selected_staff),
                  trace |-> Append(st.trace,
                                   [class_info |-> class_info,
                                    pool_before |-> st.staff_list,
                                    selected_staff |-> sel.selected_staff])]

RECURSIVE ForEachRoom(_, _, _)
ForEachRoom(classes_list, i, st) ==
    IF i > Len(classes_list) \/ st.raised THEN st
    ELSE ForEachRoom(classes_list, i + 1, RoomBody(classes_list[i], st))

\* Variant: the except block does not re-raise.
Reraise_Swallowed(raised_in_try) == FALSE

\* except Exception as e: print(...); raise -- what went wrong inside the try
\* block leaves the function as an exception.
Reraise(raised_in_try) == raised_in_try

\* allocate_staff(staff_list, classes_list, date) with the shuffle drawing the
\* rearrangement p.  The result records what the call did:
\*   raised      an exception left the function (re-raised to the caller)
\*   allotments  the returned list (meaningful when ~raised)
\*   pool_start  the pool after the exclusion step, before the shuffle
\*   shuffled    the pool after random.shuffle
\*   trace       per room processed: class_info, pool_before, selected_staff
\*   staff_list  the pool left at the end
\*   arg_after   the caller's list object after the call: shuffled and
\*               shortened in place unless staff_list was rebound
AllocateStaff(staff_list, classes_list, excluded_file, p) ==
    LET pool == PoolAfterExclusion(staff_list, excluded_file)
    IN IF pool.raised
       THEN [raised |-> Reraise(TRUE), allotments |-> <<>>, pool_start |-> <<>>,
             shuffled |-> <<>>, trace |-> <<>>, staff_list |-> <<>>,
             arg_after |-> staff_list]
       ELSE LET shuffled == Shuffle(pool.staff_list, p)
                st == ForEachRoom(classes_list, 1,
                                  [raised |-> FALSE, staff_list |-> shuffled,
                                   allotments |-> <<>>, trace |-> <<>>])
            IN [raised |-> Reraise(st.raised),
                allotments |-> IF st.raised THEN <<>> ELSE st.allotments,
                pool_start |-> pool.staff_list,
                shuffled |-> shuffled,
                trace |-> st.trace,
                staff_list |-> st.staff_list,
                arg_after |-> IF pool.rebound THEN staff_list ELSE st.staff_list]

\* The rearrangements random.shuffle can draw for this call.
ShuffleChoices(staff_list, excluded_file) ==
    Perms(Len(PoolAfterExclusion(staff_list, excluded_file).staff_list))

\* ------------------------------------------------------------------ state
VARIABLES
    staff_file,        \* data/staff.json: the Staff Directory
    excluded_file,     \* data/excluded_staff.json
    settings_file,     \* data/settings.json
    classes_file,      \* data/classes.json: the backing file of the configurations
    allotment_file,    \* data/allotment.json
    configurations,    \* config_manager.configurations: date -> config
    config_order,      \* its keys in the order in which the dict holds them
    config_is_dict,    \* FALSE when configurations is the list [] that load read
    page,              \* the page shown: home, classes, details
    selected_dates,    \* self.selected_dates: the dates still to configure
    allotments,        \* self.allotments: date -> allotment list
    pc,                \* where generate_allotment_pdf stands: idle, loop, save
    outcome,           \* how the last generate_allotment_pdf ended
    staff_list,        \* generate_allotment_pdf's staff_list
    date_idx,          \* position of its loop in selected_dates
    arg_staff_list,    \* staff_list argument of a direct allocate_staff call
    arg_classes_list,  \* classes_list argument of a direct allocate_staff call
    arg_config,        \* config argument of a direct validate_config call
    arg_class_modifiers, \* self.class_modifiers when the requirements are counted
    arg_workbook,      \* the workbook that the file dialog of upload_staff_file opens
    halls_file,        \* data/halls.json: the class names of the class page, in page order
    toggled,           \* the names toggle_staff_allotment was called with an odd number of times
    last,              \* the last direct call of a method: arguments and what it returned
    call               \* the last allocate_staff call of the run: arguments and AllocateStaff's record

vars == <<staff_file, excluded_file, settings_file, classes_file,
          allotment_file, configurations, config_order, config_is_dict,
          page, selected_dates, allotments, pc, outcome, staff_list, date_idx,
          arg_staff_list, arg_classes_list, arg_config, arg_class_modifiers,
          arg_workbook, halls_file, toggled, last, call>>

files == <<staff_file, excluded_file, settings_file, classes_file>>
args == <<arg_staff_list, arg_classes_list, arg_config, arg_class_modifiers,
          arg_workbook>>
pages == <<halls_file, toggled>>
manager == <<configurations, config_order, config_is_dict>>
ui == <<page, selected_dates>>

EmptyDict == [k \in {} |-> 0]

\* A JSON file holds a list or an object: is_dict tells which, data is the
\* content.  json.dump([], f) of the start-up loop over DB_FILES:
EmptyJsonList == [is_dict |-> FALSE, data |-> <<>>]

JsonDict(d) == [is_dict |-> TRUE, data |-> d]

NoCall ==
    [called |-> FALSE, date |-> <<>>, arg |-> <<>>, classes_list |-> <<>>,
     excluded_file |-> NoExcludedFile,
     raised |-> FALSE, allotments |-> <<>>, pool_start |-> <<>>,
     shuffled |-> <<>>, trace |-> <<>>, staff_list |-> <<>>, arg_after |-> <<>>]

\* What call holds after allocate_staff(arg, classes_list, date) ran with
\* the exclusion file xf and the rearrangement p.
CallOf(date, arg, classes_list, xf, p) ==
    LET r == AllocateStaff(arg, classes_list, xf, p)
    IN [called |-> TRUE, date |-> date, arg |-> arg,
        classes_list |-> classes_list, excluded_file |-> xf,
        raised |-> r.raised, allotments |-> r.allotments,
        pool_start |-> r.pool_start, shuffled |-> r.shuffled,
        trace |-> r.trace, staff_list |-> r.staff_list,
        arg_after |-> r.arg_after]

\* A sheet as pandas reads it: whether it has the columns Name and Gender,
\* and its rows.  No workbook: a sheet without rows.
NoWorkbook == [has_columns |-> TRUE, rows |-> <<>>]

\* A JSON value whose type the code tests or relies on: None, a list, a dict.
JsonNone == [kind |-> "none", data |-> <<>>]
JsonList(l) == [kind |-> "list", data |-> l]
JsonObject(d) == [kind |-> "dict", data |-> d]

\* No method has been called directly.
NoLast ==
    [op |-> "none", date |-> <<>>, config |-> EmptyDict, w |-> "ok",
     ok |-> FALSE, raised |-> FALSE, stored |-> FALSE, value |-> EmptyDict,
     dates |-> <<>>, message |-> "", counts |-> <<0, 0, 0>>,
     prev |-> [op |-> "none", date |-> <<>>, config |-> EmptyDict,
               ok |-> FALSE]]

\* The record of a call that follows the call l.
After(l) ==
    [NoLast EXCEPT !.prev = [op |-> l.op, date |-> l.date,
                             config |-> l.config, ok |-> l.ok]]

\* --------------------------------------- allocate_staff as a function
\* The state in which nothing but the arguments of a direct call is set.
NoProgramState ==
    /\ staff_file = <<>>
    /\ settings_file = EmptyJsonList
    /\ classes_file = EmptyJsonList
    /\ allotment_file = EmptyJsonList
    /\ configurations = EmptyDict
    /\ config_order = <<>>
    /\ config_is_dict = TRUE
    /\ page = "home"
    /\ selected_dates = <<>>
    /\ allotments = EmptyDict
    /\ pc = "idle"
    /\ outcome = "none"
    /\ staff_list = <<>>
    /\ date_idx = 0
    /\ arg_workbook = NoWorkbook
    /\ halls_file = <<>>
    /\ toggled = {}
    /\ last = NoLast
    /\ call = NoCall

\* Well-formed arguments.
InitAlloc ==
    /\ arg_staff_list \in SeqsUpTo(WellFormedStaff, MaxStaff)
    /\ arg_classes_list \in RoomLists(MaxRooms, FALSE)
    /\ excluded_file \in ExcludedFiles
    /\ arg_config = JsonNone
    /\ arg_class_modifiers = <<>>
    /\ NoProgramState

\* Requirement lists whose records may lack a key; of the complete ones,
\* the room for two of any gender and the girls only room for one.
SchemaRoomLists ==
    {l \in RoomLists(MaxRooms, TRUE) :
        \A i \in DOMAIN l :
           RoomKeys \subseteq DOMAIN l[i] => l[i].girls_only = l[i].single_staff}

\* Arguments whose records may lack keys, with no exclusion file or one
\* that names one person.
InitSchema ==
    /\ arg_staff_list \in SeqsUpTo({SA} \cup MalformedStaff, MaxStaff)
    /\ arg_classes_list \in SchemaRoomLists
    /\ excluded_file \in {x \in ExcludedFiles : Len(x.names) <= 1}
    /\ arg_config = JsonNone
    /\ arg_class_modifiers = <<>>
    /\ NoProgramState

\* allocate_staff(arg_staff_list, arg_classes_list, date)
CallAllocateStaff ==
    /\ \E p \in ShuffleChoices(arg_staff_list, excluded_file) :
          call' = CallOf(<<>>, arg_staff_list, arg_classes_list, excluded_file, p)
    /\ UNCHANGED <<files, args, pages, ui, last, allotment_file, manager, allotments,
                   pc, outcome, staff_list, date_idx>>

NextAlloc == CallAllocateStaff

SpecAlloc == InitAlloc /\ [][NextAlloc]_vars

SpecSchema == InitSchema /\ [][NextAlloc]_vars

\* ------------------------------------------------ the allocation run
\* The dates of the selected range, in the ascending order in which
\* select_dates generates them (Sundays are left out).
\* Saturday 8 and Monday 10 March 2025, as the strings strftime('%Y-%m-%d')
\* makes of them, character by character.
Date1 == <<"2", "0", "2", "5", "-", "0", "3", "-", "0", "8">>
Date2 == <<"2", "0", "2", "5", "-", "0", "3", "-", "1", "0">>

DateRange == <<Date1, Date2>>

DefaultSettings ==
    [reporting_time |-> "", assessment_name |-> "", exam_time |-> "",
     exam_details |-> ""]

\* The default of ConfigurationManager.get_date_config
DefaultConfig == [rooms |-> <<>>, settings |-> DefaultSettings]

\* self.configurations.get(date, {...})
GetDateConfig(configs, date) ==
    IF date \in DOMAIN configs THEN configs[date] ELSE DefaultConfig

\* The elements of seq at the positions in I, in order.
Keep(seq, I) ==
    LET F[k \in 0..Len(seq)] ==
            IF k = 0 THEN <<>>
            ELSE IF k \in I THEN Append(F[k - 1], seq[k]) ELSE F[k - 1]
    IN F[Len(seq)]

\* self.selected_dates: the range with some dates taken out, none empty.
DateLists == {Keep(DateRange, I) : I \in (SUBSET DOMAIN DateRange) \ {{}}}

\* What save_selected_dates writes into data/settings.json.
SettingsJson(dates) ==
    JsonDict([dates |-> dates, reporting_time |-> "", assessment_name |-> "",
              exam_time |-> "", exam_details |-> ""])

\* Configs as save_selected_dates and save_configuration store them.
StoredConfigs ==
    {[rooms |-> r, settings |-> DefaultSettings] :
        r \in RoomLists(1, FALSE)}

\* A session at the moment of a run: either
\* the files of the first start and no configuration, or the dates written
\* by save_selected_dates with the configurations of this session (none
\* after a restart, configurations being kept in memory only).
ConfiguredStart ==
    /\ \/ /\ settings_file = EmptyJsonList
          /\ configurations = EmptyDict
          /\ config_order = <<>>
       \/ \E l \in DateLists :
             /\ settings_file = SettingsJson(l)
             /\ \/ configurations \in [Range(l) -> StoredConfigs] /\ config_order = l
                \/ configurations = EmptyDict /\ config_order = <<>>
    /\ classes_file = EmptyJsonList
    /\ config_is_dict = TRUE
    /\ page = "home"
    /\ selected_dates = <<>>
    /\ arg_config = JsonNone
    /\ arg_class_modifiers = <<>>
    /\ last = NoLast
    /\ allotment_file = EmptyJsonList
    /\ allotments = EmptyDict
    /\ pc = "idle"
    /\ outcome = "none"
    /\ staff_list = <<>>
    /\ date_idx = 0
    /\ arg_staff_list = <<>>
    /\ arg_classes_list = <<>>
    /\ arg_workbook = NoWorkbook
    /\ halls_file = <<>>
    /\ toggled = {}
    /\ call = NoCall

Init ==
    /\ staff_file \in SeqsUpTo({SA, SB}, MaxStaff)
    /\ excluded_file \in ExcludedFiles
    /\ ConfiguredStart

\* Variant: staff_list itself is passed, so the caller's name stands for the
\* list the callee shuffled and shortened.
CallerListAfterCall_SameObject(caller_list, arg_after) == arg_after

\* staff_list.copy() in the call of allocate_staff: the callee shuffles and
\* shortens a new list object, so the caller's staff_list is what it was,
\* whatever the parameter has become.
CallerListAfterCall(caller_list, arg_after) == caller_list

\* Variant: self.allotments is not emptied.
AllotmentsAtStart_Kept(previous) == previous

\* self.allotments = {} before the loop, whatever it held.
AllotmentsAtStart(previous) == EmptyDict

\* generate_allotment_pdf up to the loop: reads the selected dates, loads the
\* staff list, empties self.allotments.
GenStartSteps ==
    /\ IF ~settings_file.is_dict
       THEN \* settings.get on a list: AttributeError, caught at the end
            /\ outcome' = "failed"
            /\ UNCHANGED <<pc, staff_list, date_idx, allotments>>
       ELSE IF Get(settings_file.data, "dates", <<>>) = <<>>
       THEN /\ outcome' = "no_dates"
            /\ UNCHANGED <<pc, staff_list, date_idx, allotments>>
       ELSE /\ staff_list' = staff_file
            /\ allotments' = AllotmentsAtStart(allotments)
            /\ date_idx' = 1
            /\ pc' = "loop"
            /\ outcome' = "running"
    /\ call' = NoCall

\* generate_allotment_pdf called on its own.
GenStart ==
    /\ pc = "idle"
    /\ GenStartSteps
    /\ UNCHANGED <<files, args, pages, ui, last, allotment_file, manager>>

\* Variant: the file is written after every date.
FileAfterDate_Saved(file, allots) == JsonDict(allots)

\* data/allotment.json after the body of the loop: the body does not write it.
FileAfterDate(file, allots) == file

\* One iteration of "for date_str in selected_dates".  generate_pdf writes a
\* document and re-raises what goes wrong in doing so: pdf_ok.
GenDate ==
    /\ pc = "loop"
    /\ date_idx <= Len(settings_file.data.dates)
    /\ LET date_str == settings_file.data.dates[date_idx]
           config == GetDateConfig(configurations, date_str)
       IN IF "rooms" \notin DOMAIN config
          THEN /\ date_idx' = date_idx + 1
               /\ UNCHANGED <<pc, outcome, staff_list, allotments, call,
                              allotment_file>>
          ELSE \E p \in ShuffleChoices(staff_list, excluded_file), pdf_ok \in BOOLEAN :
                 LET c == CallOf(date_str, staff_list, config.rooms, excluded_file, p)
                 IN /\ call' = c
                    /\ staff_list' = CallerListAfterCall(staff_list, c.arg_after)
                    /\ IF c.raised
                       THEN /\ pc' = "idle"
                            /\ outcome' = "failed"
                            /\ UNCHANGED <<allotments, date_idx, allotment_file>>
                       ELSE /\ allotments' =
                                 [d \in DOMAIN allotments \cup {date_str} |->
                                    IF d = date_str THEN c.allotments
                                    ELSE allotments[d]]
                            /\ allotment_file' =
                                  FileAfterDate(allotment_file, allotments')
                            /\ IF "settings" \in DOMAIN config /\ pdf_ok
                               THEN /\ date_idx' = date_idx + 1
                                    /\ UNCHANGED <<pc, outcome>>
                               ELSE /\ pc' = "idle"
                                    /\ outcome' = "failed"
                                    /\ UNCHANGED date_idx
    /\ UNCHANGED <<files, args, pages, ui, last, manager>>

\* After the loop: json.dump(self.allotments) into allotment.json.
GenSave ==
    /\ pc = "loop"
    /\ date_idx > Len(settings_file.data.dates)
    /\ allotment_file' = JsonDict(allotments)
    /\ pc' = "idle"
    /\ outcome' = "success"
    /\ UNCHANGED <<files, args, pages, ui, last, manager, allotments, staff_list,
                   date_idx, call>>

Next == GenStart \/ GenDate \/ GenSave

\* staff.json and excluded_staff.json as found on disk.
Spec == Init /\ [][Next]_vars

\* ------------------------------------------------ ConfigurationManager
\* The code points of the characters of a date string.
Ord(c) ==
    CASE c = "-" -> 45
      [] c = "0" -> 48 [] c = "1" -> 49 [] c = "2" -> 50 [] c = "3" -> 51
      [] c = "4" -> 52 [] c = "5" -> 53 [] c = "6" -> 54 [] c = "7" -> 55
      [] c = "8" -> 56 [] c = "9" -> 57

\* a < b on Python strings: at the first position where they differ the
\* character of a has the smaller code point, or a ends there and b does not.
StrLess(a, b) ==
    \E i \in 1..(Len(a) + 1) :
       /\ \A j \in 1..(i - 1) : j <= Len(b) /\ a[j] = b[j]
       /\ \/ i > Len(a) /\ i <= Len(b)
          \/ i <= Len(a) /\ i <= Len(b) /\ Ord(a[i]) < Ord(b[i])

\* sorted(keys): every key put after the keys that are not greater.
RECURSIVE Sorted(_)
Sorted(keys) ==
    IF keys = <<>> THEN <<>>
    ELSE LET x == keys[Len(keys)]
             s == Sorted(SubSeq(keys, 1, Len(keys) - 1))
             k == Cardinality({i \in DOMAIN s : ~StrLess(x, s[i])})
         IN SubSeq(s, 1, k) \o <<x>> \o SubSeq(s, k + 1, Len(s))

\* get_all_dates
GetAllDates(keys) == Sorted(keys)

\* Variant: the keys as the dict holds them.
GetConfiguredDates_AsHeld(keys) == keys

\* get_configured_dates
GetConfiguredDates(keys) == Sorted(keys)

\* Variant: d.setdefault(k, v), which keeps an entry that is there.
DictSet_KeepExisting(d, k, v) ==
    [x \in DOMAIN d \cup {k} |-> IF x \in DOMAIN d THEN d[x] ELSE v]

\* Variant: d[k].update(v), which keeps the keys of the entry that v lacks.
DictSet_Merged(d, k, v) ==
    [x \in DOMAIN d \cup {k} |->
        IF x # k THEN d[x]
        ELSE IF k \notin DOMAIN d THEN v
        ELSE [f \in DOMAIN d[k] \cup DOMAIN v |->
                IF f \in DOMAIN v THEN v[f] ELSE d[k][f]]]

\* d[k] = v
DictSet(d, k, v) == [x \in DOMAIN d \cup {k} |-> IF x = k THEN v ELSE d[x]]

\* The keys of d after d[k] = v: a new key comes last.
KeysAfterSet(keys, k) ==
    IF k \in Range(keys) THEN keys ELSE Append(keys, k)

\* What json.dump(self.configurations) writes.
StoreJson(configs, keys) == JsonDict([keys |-> keys, entries |-> configs])

\* A file that was opened for writing and not written to its end.
PartialJson == [is_dict |-> FALSE, data |-> <<"partial">>]

\* How the write of save_configurations goes: makedirs or open may fail
\* before the file is touched, json.dump after it was truncated.
WriteOutcomes == {"ok", "open_fails", "dump_fails"}

\* Variant: no try/except around the write.
SaveConfigurations_Unguarded(configs, keys, is_dict, file, w) ==
    [ok |-> w = "ok", raised |-> w # "ok",
     file |-> IF w = "ok"
              THEN (IF is_dict THEN StoreJson(configs, keys) ELSE EmptyJsonList)
              ELSE IF w = "open_fails" THEN file ELSE PartialJson]

\* save_configurations: what it returns and what data/classes.json holds.
SaveConfigurations(configs, keys, is_dict, file, w) ==
    [ok |-> w = "ok", raised |-> FALSE,
     file |-> IF w = "ok"
              THEN (IF is_dict THEN StoreJson(configs, keys) ELSE EmptyJsonList)
              ELSE IF w = "open_fails" THEN file ELSE PartialJson]

\* Variant: self.configurations.setdefault(date, {...})
StoreAfterGet_SetDefault(configs, date) ==
    DictSet_KeepExisting(configs, date, DefaultConfig)

\* self.configurations after get_date_config: dict.get adds no key.
StoreAfterGet(configs, date) == configs

\* Whether get_date_config returns the object the dict holds (dict.get on a
\* key that is there) or the dict the call built.
ReturnsStoredObject(configs, date) == date \in DOMAIN configs

\* load_configurations: data/classes.json exists from start-up on.
LoadConfigurations(file) ==
    IF file.is_dict
    THEN [configurations |-> file.data.entries, config_order |-> file.data.keys,
          config_is_dict |-> TRUE]
    ELSE IF file.data = <<>>
    THEN [configurations |-> EmptyDict, config_order |-> <<>>,
          config_is_dict |-> FALSE]
    ELSE \* json.load raises: self.configurations = {}
         [configurations |-> EmptyDict, config_order |-> <<>>,
          config_is_dict |-> TRUE]

\* A room as save_configuration records it.
GirlsRoom == [room_no |-> "101", girls_only |-> TRUE, single_staff |-> TRUE]

FilledSettings ==
    [reporting_time |-> "08:30", assessment_name |-> "CAT 1",
     exam_time |-> "09:00", exam_details |-> "Hall A"]

\* The configs a caller passes to set_date_config: the default, a filled
\* one, and one that has no settings.
ArgConfigs ==
    {DefaultConfig,
     [rooms |-> <<GirlsRoom>>, settings |-> FilledSettings],
     [rooms |-> <<>>]}

\* What save_configuration makes of the config it got from get_date_config:
\* config['settings'] = {...}; config['rooms'] = [...]
ChangedConfig == [rooms |-> <<GirlsRoom>>, settings |-> DefaultSettings]

session == <<staff_file, excluded_file, settings_file, allotment_file, ui,
             allotments, pc, outcome, staff_list, date_idx, args, pages,
             call>>

\* A ConfigurationManager right after construction, data/classes.json as
\* the start-up code wrote it.
InitStore ==
    /\ excluded_file = NoExcludedFile
    /\ arg_staff_list = <<>>
    /\ arg_classes_list = <<>>
    /\ arg_config = JsonNone
    /\ arg_class_modifiers = <<>>
    /\ NoProgramState

\* get_date_config(date)
CallGetDateConfig ==
    \E date \in Range(DateRange) :
       /\ IF config_is_dict
          THEN /\ configurations' = StoreAfterGet(configurations, date)
               /\ config_order' =
                     IF date \in DOMAIN configurations'
                     THEN KeysAfterSet(config_order, date) ELSE config_order
               /\ last' = [After(last) EXCEPT !.op = "get", !.date = date,
                              !.value = GetDateConfig(configurations, date),
                              !.stored = ReturnsStoredObject(configurations, date)]
          ELSE \* a list has no get: AttributeError
               /\ last' = [After(last) EXCEPT !.op = "get", !.date = date,
                                         !.raised = TRUE]
               /\ UNCHANGED <<configurations, config_order>>
       /\ UNCHANGED <<config_is_dict, classes_file, session>>

\* The caller assigns to the keys of the config it just got.
ChangeReturnedConfig ==
    /\ last.op = "get"
    /\ ~last.raised
    /\ configurations' =
          IF last.stored /\ last.date \in DOMAIN configurations
          THEN DictSet(configurations, last.date, ChangedConfig)
          ELSE configurations
    /\ last' = [After(last) EXCEPT !.op = "change", !.date = last.date,
                              !.stored = last.stored, !.value = ChangedConfig]
    /\ UNCHANGED <<config_order, config_is_dict, classes_file, session>>

\* set_date_config(date, config)
CallSetDateConfig ==
    \E date \in Range(DateRange), config \in ArgConfigs, w \in WriteOutcomes :
       /\ IF config_is_dict
          THEN LET configs == DictSet(configurations, date, config)
                   keys == KeysAfterSet(config_order, date)
                   s == SaveConfigurations(configs, keys, TRUE, classes_file, w)
               IN /\ configurations' = configs
                  /\ config_order' = keys
                  /\ classes_file' = s.file
                  /\ last' = [After(last) EXCEPT !.op = "set", !.date = date,
                                 !.config = config, !.w = w, !.ok = s.ok,
                                 !.raised = s.raised,
                                 !.stored = date \in DOMAIN configurations]
          ELSE \* a list takes no string index: TypeError, nothing is saved
               /\ last' = [After(last) EXCEPT !.op = "set", !.date = date,
                              !.config = config, !.raised = TRUE]
               /\ UNCHANGED <<configurations, config_order, classes_file>>
       /\ UNCHANGED <<config_is_dict, session>>

\* clear_configurations(): the result of save_configurations is dropped.
CallClearConfigurations ==
    \E w \in WriteOutcomes :
       LET s == SaveConfigurations(EmptyDict, <<>>, TRUE, classes_file, w)
       IN /\ configurations' = EmptyDict
          /\ config_order' = <<>>
          /\ config_is_dict' = TRUE
          /\ classes_file' = s.file
          /\ last' = [After(last) EXCEPT !.op = "clear", !.w = w, !.raised = s.raised]
          /\ UNCHANGED session

\* get_all_dates()
CallGetAllDates ==
    /\ last' = IF config_is_dict
               THEN [After(last) EXCEPT !.op = "all_dates",
                                   !.dates = GetAllDates(config_order)]
               ELSE \* a list has no keys: AttributeError
                    [After(last) EXCEPT !.op = "all_dates", !.raised = TRUE]
    /\ UNCHANGED <<manager, classes_file, session>>

\* get_configured_dates()
CallGetConfiguredDates ==
    /\ last' = IF config_is_dict
               THEN [After(last) EXCEPT !.op = "configured_dates",
                                   !.dates = GetConfiguredDates(config_order)]
               ELSE [After(last) EXCEPT !.op = "configured_dates", !.raised = TRUE]
    /\ UNCHANGED <<manager, classes_file, session>>

\* load_configurations()
CallLoadConfigurations ==
    LET l == LoadConfigurations(classes_file)
    IN /\ configurations' = l.configurations
       /\ config_order' = l.config_order
       /\ config_is_dict' = l.config_is_dict
       /\ last' = [After(last) EXCEPT !.op = "load"]
       /\ UNCHANGED <<classes_file, session>>

\* The methods the program calls on its ConfigurationManager.
NextStore ==
    \/ CallGetDateConfig
    \/ ChangeReturnedConfig
    \/ CallSetDateConfig
    \/ CallClearConfigurations
    \/ CallGetAllDates
    \/ CallGetConfiguredDates

SpecStore == InitStore /\ [][NextStore]_vars

\* All its methods: load_configurations, which the program never calls, too.
NextStoreLoad == NextStore \/ CallLoadConfigurations

SpecStoreLoad == InitStore /\ [][NextStoreLoad]_vars

\* ------------------------------------ validate_config and the requirements
RoomKeysRequired == {"room_no", "girls_only", "single_staff"}

\* Variant: the three settings generate_both writes.
RequiredSettings_Three == {"reporting_time", "assessment_name", "exam_time"}

\* required_settings
RequiredSettings ==
    {"reporting_time", "assessment_name", "exam_time", "exam_details"}

\* except Exception as e: return False, f"Validation error: {str(e)}"
ValidationError ==
    [ok |-> FALSE, message |-> "Validation error", raised |-> FALSE]

\* validate_config(config): rooms or settings that are None raise a
\* TypeError where they are iterated or searched, which the except answers.
ValidateConfig(config) ==
    IF config.kind # "dict"
    THEN [ok |-> FALSE, message |-> "Invalid configuration format", raised |-> FALSE]
    ELSE IF "rooms" \notin DOMAIN config.data
    THEN [ok |-> FALSE, message |-> "Missing rooms configuration", raised |-> FALSE]
    ELSE IF "settings" \notin DOMAIN config.data
    THEN [ok |-> FALSE, message |-> "Missing settings configuration", raised |-> FALSE]
    ELSE LET rooms == config.data["rooms"]
             settings == config.data["settings"]
         IN IF rooms.kind = "none"
            THEN ValidationError
            ELSE IF \E i \in DOMAIN rooms.data :
                       ~(RoomKeysRequired \subseteq DOMAIN rooms.data[i])
            THEN [ok |-> FALSE, message |-> "Invalid room configuration",
                  raised |-> FALSE]
            ELSE IF settings.kind = "none"
            THEN ValidationError
            ELSE IF ~(RequiredSettings \subseteq DOMAIN settings.data)
            THEN [ok |-> FALSE, message |-> "Missing required settings",
                  raised |-> FALSE]
            ELSE [ok |-> TRUE, message |-> "Configuration is valid",
                  raised |-> FALSE]

\* Settings with all four fields, and with one of them missing.
SettingsRecords ==
    {DefaultSettings} \cup
    {[k \in DOMAIN DefaultSettings \ {m} |-> ""] : m \in DOMAIN DefaultSettings}

\* A dict with the keys K, of rooms r and settings s.
ConfigOf(K, r, s) ==
    JsonObject([k \in K |-> IF k = "rooms" THEN r ELSE s])

\* What a caller may pass to validate_config.
ValidateArgs ==
    {JsonNone, JsonList(<<>>)} \cup
    {ConfigOf(K, r, s) :
        K \in SUBSET {"rooms", "settings"},
        r \in {JsonNone} \cup {JsonList(l) : l \in RoomLists(MaxRooms, TRUE)},
        s \in {JsonNone} \cup {JsonObject(x) : x \in SettingsRecords}}

\* self.class_modifiers: for each class of the building, in the order of
\* the dict, whether it is selected, girls only, single staff.
ClassModifiersAt(i) ==
    {[class_name |-> RoomNos[i], selected |-> x, girls_only |-> g,
      single_staff |-> s] : x \in BOOLEAN, g \in BOOLEAN, s \in BOOLEAN}

ClassModifierLists ==
    UNION {{l \in [1..k -> UNION {ClassModifiersAt(i) : i \in 1..k}] :
               \A i \in 1..k : l[i] \in ClassModifiersAt(i)} : k \in 0..MaxRooms}

\* The loop of update_requirements over the first k classes.
RECURSIVE RequirementsUpTo(_, _)
RequirementsUpTo(class_modifiers, k) ==
    IF k = 0 THEN [total_req |-> 0, female_req |-> 0]
    ELSE LET r == RequirementsUpTo(class_modifiers, k - 1)
             modifiers == class_modifiers[k]
         IN IF ~modifiers.selected THEN r
            ELSE IF modifiers.single_staff
            THEN [total_req |-> r.total_req + 1,
                  female_req |-> r.female_req + (IF modifiers.girls_only THEN 1 ELSE 0)]
            ELSE [total_req |-> r.total_req + 2,
                  female_req |-> r.female_req + (IF modifiers.girls_only THEN 2 ELSE 0)]

\* update_requirements: the three counts it puts on the labels.
UpdateRequirements(class_modifiers) ==
    LET r == RequirementsUpTo(class_modifiers, Len(class_modifiers))
    IN <<r.total_req, r.female_req, r.total_req - r.female_req>>

\* The attributes of the ExamDutyApp that calculate_staff_requirements
\* reads: __init__ sets room_frames to {}, which nothing fills, and
\* nothing sets available_classes.
AppAttributes(class_modifiers) ==
    [room_frames |-> EmptyDict, class_modifiers |-> class_modifiers]

\* The loop of calculate_staff_requirements over the first k rooms, the
\* widgets of a room read as its girls_only and single_staff.
RECURSIVE CalculateUpTo(_, _)
CalculateUpTo(app, k) ==
    IF k = 0 THEN [raised |-> FALSE, total_required |-> 0, female_required |-> 0]
    ELSE LET r == CalculateUpTo(app, k - 1)
             room_no == app.available_classes[k]
         IN IF r.raised \/ room_no \notin DOMAIN app.room_frames
            THEN [r EXCEPT !.raised = TRUE]
            ELSE LET frame == app.room_frames[room_no]
                     n == IF frame.single_staff THEN 1 ELSE 2
                 IN [raised |-> FALSE,
                     total_required |-> r.total_required + n,
                     female_required |-> r.female_required +
                                         (IF frame.girls_only THEN n ELSE 0)]

\* calculate_staff_requirements: an attribute or a key that is missing
\* raises, and the except returns 0, 0, 0.
CalculateStaffRequirements(app) ==
    IF "available_classes" \notin DOMAIN app THEN <<0, 0, 0>>
    ELSE LET r == CalculateUpTo(app, Len(app.available_classes))
         IN IF r.raised THEN <<0, 0, 0>>
            ELSE <<r.total_required, r.female_required,
                   r.total_required - r.female_required>>

\* A config handed to validate_config, or the class page with its
\* checkboxes set.
InitPure ==
    /\ \/ arg_config \in ValidateArgs /\ arg_class_modifiers = <<>>
       \/ arg_config = JsonNone /\ arg_class_modifiers \in ClassModifierLists
    /\ excluded_file = NoExcludedFile
    /\ arg_staff_list = <<>>
    /\ arg_classes_list = <<>>
    /\ NoProgramState

\* validate_config(arg_config)
CallValidateConfig ==
    /\ LET v == ValidateConfig(arg_config)
       IN last' = [After(last) EXCEPT !.op = "validate_config", !.ok = v.ok,
                      !.message = v.message, !.raised = v.raised]
    /\ UNCHANGED <<manager, classes_file, session>>

\* update_requirements()
CallUpdateRequirements ==
    /\ last' = [After(last) EXCEPT !.op = "update_requirements",
                   !.counts = UpdateRequirements(arg_class_modifiers)]
    /\ UNCHANGED <<manager, classes_file, session>>

\* calculate_staff_requirements()
CallCalculateStaffRequirements ==
    /\ last' = [After(last) EXCEPT !.op = "calculate_staff_requirements",
                   !.counts = CalculateStaffRequirements(
                                 AppAttributes(arg_class_modifiers))]
    /\ UNCHANGED <<manager, classes_file, session>>

NextPure ==
    \/ CallValidateConfig
    \/ CallUpdateRequirements
    \/ CallCalculateStaffRequirements

SpecPure == InitPure /\ [][NextPure]_vars

\* ------------------------------------------------------------ the session
\* config['settings'] of generate_both, the three fields filled in.
GenerateSettings ==
    [assessment_name |-> "CAT 1", exam_time |-> "09:00",
     reporting_time |-> "08:30"]

\* The write of save_configurations in a session: the disk works.
SessionClassesFile(configs, keys, file) ==
    SaveConfigurations(configs, keys, TRUE, file, "ok").file

\* Variant: the store is cleared before every set_date_config.
SetDefaultConfigs_LastOnly(dates, k) ==
    IF k = 0 THEN [configurations |-> EmptyDict, config_order |-> <<>>]
    ELSE [configurations |-> [d \in {dates[k]} |-> DefaultConfig],
          config_order |-> <<dates[k]>>]

\* save_selected_dates after clear_configurations: set_date_config of the
\* default for the first k dates.
RECURSIVE SetDefaultConfigs(_, _)
SetDefaultConfigs(dates, k) ==
    IF k = 0 THEN [configurations |-> EmptyDict, config_order |-> <<>>]
    ELSE LET m == SetDefaultConfigs(dates, k - 1)
         IN [configurations |-> DictSet(m.configurations, dates[k], DefaultConfig),
             config_order |-> KeysAfterSet(m.config_order, dates[k])]

\* The config save_configuration stores for a date: the one it got, with
\* settings and rooms assigned, or a new one when it got an empty dict.
ConfiguredConfig(config, rooms) ==
    IF DOMAIN config # {}
    THEN DictSet(DictSet(config, "settings", DefaultSettings), "rooms", rooms)
    ELSE [rooms |-> rooms, settings |-> DefaultSettings]

\* The loop of save_configuration over the first k dates of the dialog.
RECURSIVE ConfigureDates(_, _, _, _, _)
ConfigureDates(configs, keys, dialog_dates, rooms, k) ==
    IF k = 0 THEN [configurations |-> configs, config_order |-> keys]
    ELSE LET m == ConfigureDates(configs, keys, dialog_dates, rooms, k - 1)
             date == dialog_dates[k]
             config == ConfiguredConfig(GetDateConfig(m.configurations, date), rooms)
         IN [configurations |-> DictSet(m.configurations, date, config),
             config_order |-> KeysAfterSet(m.config_order, date)]

\* Variant: every pending date counts as configured.
RemoveConfigured_All(pending, dialog_dates, k) == <<>>

\* self.selected_dates after "if date in self.selected_dates:
\* self.selected_dates.remove(date)" for the first k dates of the dialog.
RECURSIVE RemoveConfigured(_, _, _)
RemoveConfigured(pending, dialog_dates, k) ==
    IF k = 0 THEN pending
    ELSE LET rest == RemoveConfigured(pending, dialog_dates, k - 1)
         IN IF dialog_dates[k] \in Range(rest)
            THEN ListRemove(rest, dialog_dates[k]) ELSE rest

\* The loop of generate_both over the first k configured dates.
RECURSIVE RewriteSettings(_, _, _, _)
RewriteSettings(configs, keys, dates, k) ==
    IF k = 0 THEN [configurations |-> configs, config_order |-> keys]
    ELSE LET m == RewriteSettings(configs, keys, dates, k - 1)
             date == dates[k]
             config == GetDateConfig(m.configurations, date)
         IN IF DOMAIN config = {} THEN m
            ELSE [configurations |->
                     DictSet(m.configurations, date,
                             DictSet(config, "settings", GenerateSettings)),
                  config_order |-> KeysAfterSet(m.config_order, date)]

\* Variant: one BooleanVar per checkbox drawn, kept in a list.
ClassVars_PerCheckbox(names, k) == SubSeq(names, 1, k)

\* configure_selected_classes: the keys of self.class_vars after the
\* checkboxes of the first k class names of the page were drawn,
\* self.class_vars[class_name] = class_var for each.
RECURSIVE ClassVars(_, _)
ClassVars(names, k) ==
    IF k = 0 THEN <<>> ELSE KeysAfterSet(ClassVars(names, k - 1), names[k])

\* self.class_modifiers as the class page can leave it: for each key of
\* class_vars whether the class is selected, girls only, single staff.
ClassPages(class_vars) ==
    {[i \in DOMAIN class_vars |->
         [class_name |-> class_vars[i], selected |-> f[i][1],
          girls_only |-> f[i][2], single_staff |-> f[i][3]]] :
       f \in [DOMAIN class_vars -> BOOLEAN \X BOOLEAN \X BOOLEAN]}

\* config['rooms'] of save_configuration: a room for each selected class
\* among the first k of class_modifiers.
RECURSIVE ConfigRooms(_, _)
ConfigRooms(class_modifiers, k) ==
    IF k = 0 THEN <<>>
    ELSE LET modifiers == class_modifiers[k]
             rooms == ConfigRooms(class_modifiers, k - 1)
         IN IF modifiers.selected
            THEN Append(rooms, [room_no |-> modifiers.class_name,
                                girls_only |-> modifiers.girls_only,
                                single_staff |-> modifiers.single_staff])
            ELSE rooms

\* The program after start-up: every data file but the directory and the
\* halls holds [], nothing is configured, the home page is shown.
ProgramStartNoWorkbook ==
    /\ excluded_file = NoExcludedFile
    /\ arg_staff_list = <<>>
    /\ arg_classes_list = <<>>
    /\ arg_config = JsonNone
    /\ arg_class_modifiers = <<>>
    /\ settings_file = EmptyJsonList
    /\ classes_file = EmptyJsonList
    /\ allotment_file = EmptyJsonList
    /\ configurations = EmptyDict
    /\ config_order = <<>>
    /\ config_is_dict = TRUE
    /\ page = "home"
    /\ selected_dates = <<>>
    /\ allotments = EmptyDict
    /\ pc = "idle"
    /\ outcome = "none"
    /\ staff_list = <<>>
    /\ date_idx = 0
    /\ toggled = {}
    /\ last = NoLast
    /\ call = NoCall

ProgramStart == ProgramStartNoWorkbook /\ arg_workbook = NoWorkbook

\* A session with one person in the directory and one class in the halls.
InitSession ==
    /\ staff_file \in {<<SA>>, <<SB>>}
    /\ halls_file = <<RoomNos[1]>>
    /\ ProgramStart

\* data/halls.json as the class page lists it: the classes of the
\* buildings one after the other, a name in more than one building or not.
HallsFiles == SeqsUpTo({RoomNos[1], RoomNos[2]}, MaxRooms)

\* The date page and the class page over any halls.
InitConfigure ==
    /\ staff_file = <<>>
    /\ halls_file \in HallsFiles
    /\ ProgramStart

\* The date page: a range is generated or the list is left as it is, dates
\* are taken out, and "proceed" calls save_selected_dates.
SaveSelectedDates ==
    /\ pc = "idle"
    /\ \E dates \in DateLists \cup {<<>>} :
          /\ selected_dates' = dates
          /\ last' = [NoLast EXCEPT !.op = "save_selected_dates",
                                    !.dates = dates, !.ok = dates # <<>>]
          /\ IF dates = <<>>
             THEN /\ page' = "dates"
                  /\ UNCHANGED <<settings_file, classes_file, manager>>
             ELSE LET m == SetDefaultConfigs(dates, Len(dates))
                  IN /\ settings_file' = SettingsJson(dates)
                     /\ configurations' = m.configurations
                     /\ config_order' = m.config_order
                     /\ config_is_dict' = TRUE
                     /\ classes_file' =
                           SessionClassesFile(m.configurations, m.config_order,
                                              classes_file)
                     /\ page' = "classes"
    /\ UNCHANGED <<staff_file, excluded_file, allotment_file, allotments, pc,
                   outcome, staff_list, date_idx, args, pages, call>>

\* save_configuration with the rooms ticked on the class page and the
\* dates ticked in the dialog (none: the dialog was cancelled).
SaveConfiguration ==
    /\ pc = "idle"
    /\ page = "classes"
    /\ \E class_modifiers \in ClassPages(ClassVars(halls_file, Len(halls_file))),
          I \in SUBSET DOMAIN selected_dates :
          LET rooms == ConfigRooms(class_modifiers, Len(class_modifiers))
              dialog_dates == Keep(Sorted(selected_dates), I)
              m == ConfigureDates(configurations, config_order, dialog_dates,
                                  rooms, Len(dialog_dates))
              pending == RemoveConfigured(selected_dates, dialog_dates,
                                          Len(dialog_dates))
              applied == rooms # <<>> /\ dialog_dates # <<>>
          IN /\ last' = IF applied
                         THEN [NoLast EXCEPT !.op = "save_configuration",
                                             !.dates = dialog_dates,
                                             !.value = rooms, !.ok = TRUE]
                         ELSE [NoLast EXCEPT !.op = "save_configuration"]
             /\ IF ~applied
                THEN UNCHANGED <<manager, classes_file, ui>>
                ELSE
                  /\ configurations' = m.configurations
                  /\ config_order' = m.config_order
                  /\ classes_file' =
                        SessionClassesFile(m.configurations, m.config_order,
                                           classes_file)
                  /\ selected_dates' = pending
                  /\ page' = IF pending = <<>> THEN "details" ELSE "classes"
                  /\ UNCHANGED config_is_dict
    /\ UNCHANGED <<staff_file, excluded_file, settings_file, allotment_file,
                   allotments, pc, outcome, staff_list, date_idx, args, pages,
                   call>>

\* The back button of the details page.
BackToClasses ==
    /\ pc = "idle"
    /\ page = "details"
    /\ page' = "classes"
    /\ last' = [NoLast EXCEPT !.op = "configure_selected_classes"]
    /\ UNCHANGED <<files, manager, selected_dates, allotment_file, allotments,
                   pc, outcome, staff_list, date_idx, args, pages, call>>

\* generate_both up to the loop of generate_allotment_pdf: with the three
\* fields filled in it writes them into every configured date.
GenerateBoth ==
    /\ pc = "idle"
    /\ page = "details"
    /\ \E filled \in BOOLEAN :
          /\ last' = [NoLast EXCEPT !.op = "generate_both", !.ok = filled]
          /\ IF ~filled
             THEN UNCHANGED <<files, manager, ui, allotment_file, allotments, pc,
                              outcome, staff_list, date_idx, args, pages, call>>
             ELSE
               LET dates == GetConfiguredDates(config_order)
                   m == RewriteSettings(configurations, config_order, dates,
                                        Len(dates))
               IN /\ configurations' = m.configurations
                  /\ config_order' = m.config_order
                  /\ classes_file' =
                        SessionClassesFile(m.configurations, m.config_order,
                                           classes_file)
                  /\ GenStartSteps
                  /\ UNCHANGED <<staff_file, excluded_file, settings_file,
                                 config_is_dict, ui, allotment_file, args, pages>>

\* ---------------------------------------------------------- the directory
\* A cell as pandas reads it: its text, or NaN for a blank cell.
NaN == [nan |-> TRUE, text |-> <<>>]
Cell(text) == [nan |-> FALSE, text |-> text]

\* str(cell)
Str(cell) == IF cell.nan THEN <<"n", "a", "n">> ELSE cell.text

\* Gender cells: the seven spellings the code knows, in some case and
\* with some blanks, and cells it does not know.
GenderCells ==
    {Cell(<<"M">>), Cell(<<"m", "a", "l", "e">>), Cell(<<" ", "M", "r">>),
     Cell(<<"F">>), Cell(<<"F", "e", "m", "a", "l", "e", " ">>),
     Cell(<<"m", "s">>), Cell(<<"M", "R", "S">>),
     Cell(<<"X">>), NaN}

NameCells == {Cell(<<"A">>), Cell(<<" ", "B", " ">>), Cell(<<" ">>), NaN}

\* Rows of a sheet: every gender cell under one name, every name cell
\* under one gender.
SheetRows ==
    {[Name |-> Cell(<<"A">>), Gender |-> g] : g \in GenderCells} \cup
    {[Name |-> n, Gender |-> Cell(<<"M">>)] : n \in NameCells}

Workbooks ==
    {[has_columns |-> TRUE, rows |-> r] : r \in SeqsUpTo(SheetRows, MaxStaff)}
    \cup {[has_columns |-> FALSE, rows |-> <<r>>] : r \in SheetRows}

\* if ... in ['M', 'MALE', 'MR']: 'M'  elif ... in ['F', 'FEMALE', 'MS', 'MRS']: 'F'
NormalizeGender(staff_gender) ==
    IF staff_gender \in {<<"M">>, <<"M", "A", "L", "E">>, <<"M", "R">>}
    THEN <<"M">>
    ELSE IF staff_gender \in {<<"F">>, FEMALE_, <<"M", "S">>, <<"M", "R", "S">>}
    THEN <<"F">>
    ELSE staff_gender

\* The staff_member of a row of the sheet dept.
StaffMember(row, dept) ==
    [staff_name |-> Strip(Str(row.Name)), staff_dept |-> dept,
     staff_gender |-> NormalizeGender(Upper(Strip(Str(row.Gender))))]

\* Variant: a record is kept whenever it has a name.
IsValidStaff_AnyGender(staff_member) == staff_member.staff_name # <<>>

\* staff_member['staff_name'] and staff_member['staff_gender'] in ['M', 'F']
IsValidStaff(staff_member) ==
    /\ staff_member.staff_name # <<>>
    /\ staff_member.staff_gender \in {<<"M">>, <<"F">>}

\* staff_data after the first k rows of the sheet.
RECURSIVE StaffData(_, _, _)
StaffData(rows, dept, k) ==
    IF k = 0 THEN <<>>
    ELSE LET staff_data == StaffData(rows, dept, k - 1)
             staff_member == StaffMember(rows[k], dept)
         IN IF IsValidStaff(staff_member)
            THEN Append(staff_data, staff_member) ELSE staff_data

\* upload_staff_file: the file dialog may be cancelled; a sheet without the
\* two columns and a workbook without a valid row are reported, and
\* staff.json is written otherwise.
UploadStaffFile ==
    /\ pc = "idle"
    /\ \E chosen \in BOOLEAN :
          LET staff_data == StaffData(arg_workbook.rows, "CSE",
                                      Len(arg_workbook.rows))
              written == /\ chosen
                         /\ arg_workbook.has_columns
                         /\ staff_data # <<>>
          IN /\ staff_file' = IF written THEN staff_data ELSE staff_file
             /\ page' = IF written THEN "home" ELSE page
             /\ last' = [After(last) EXCEPT !.op = "upload_staff_file",
                                            !.ok = written]
    /\ UNCHANGED <<excluded_file, settings_file, classes_file, allotment_file,
                   manager, selected_dates, allotments, pc, outcome, staff_list,
                   date_idx, args, pages, call>>

\* Variant: the name is added whether the list has it or not.
ToggleList_Append(excluded_staff, staff_name) == Append(excluded_staff, staff_name)

\* if staff_name in excluded_staff: excluded_staff.remove(staff_name)
\* else: excluded_staff.append(staff_name)
ToggleList(excluded_staff, staff_name) ==
    IF staff_name \in Range(excluded_staff)
    THEN ListRemove(excluded_staff, staff_name)
    ELSE Append(excluded_staff, staff_name)

\* The list toggle_staff_allotment starts from: the file's, [] without one.
LoadExcluded(file) == IF file.exists THEN file.names ELSE <<>>

\* toggle_staff_allotment of a person of the staff page.
ToggleStaffAllotment ==
    /\ pc = "idle"
    /\ \E i \in DOMAIN staff_file :
          LET staff_name == Strip(Get(staff_file[i], "staff_name", <<>>))
          IN /\ excluded_file' =
                   [exists |-> TRUE,
                    names |-> ToggleList(LoadExcluded(excluded_file), staff_name)]
             /\ toggled' = IF staff_name \in toggled
                           THEN toggled \ {staff_name}
                           ELSE toggled \cup {staff_name}
             /\ last' = [NoLast EXCEPT !.op = "toggle_staff_allotment",
                                       !.value = staff_name]
    /\ page' = "staff"
    /\ UNCHANGED <<staff_file, settings_file, classes_file, allotment_file,
                   manager, selected_dates, allotments, pc, outcome, staff_list,
                   date_idx, args, halls_file, call>>

\* The session: the pages, the run and the staff page.
NextSession ==
    \/ SaveSelectedDates
    \/ SaveConfiguration
    \/ BackToClasses
    \/ GenerateBoth
    \/ GenDate
    \/ GenSave

SpecSession == InitSession /\ [][NextSession]_vars

\* Runs between which people are taken out of the allotment and restored
\* on the staff page; the pages that lead from there back to the details
\* page are left out.  The directory holds a person whose name has a blank
\* before it and another person, or a record without a name.
InitExclusion ==
    /\ staff_file \in {<<SC, SB>>, <<SNoName>>}
    /\ excluded_file = NoExcludedFile
    /\ ConfiguredStart

NextExclusion ==
    \/ Next
    \/ ToggleStaffAllotment

SpecExclusion == InitExclusion /\ [][NextExclusion]_vars

\* The two pages on which the dates are configured, and the way back.
NextConfigure ==
    \/ SaveSelectedDates
    \/ SaveConfiguration
    \/ BackToClasses

SpecConfigure == InitConfigure /\ [][NextConfigure]_vars

\* The program after start-up and a workbook to upload.
InitUpload ==
    /\ staff_file = <<>>
    /\ halls_file = <<>>
    /\ arg_workbook \in Workbooks
    /\ ProgramStartNoWorkbook

NextUpload == UploadStaffFile

SpecUpload == InitUpload /\ [][NextUpload]_vars

\* The staff page over a directory, no one excluded yet.
InitDirectory ==
    /\ staff_file \in SeqsUpTo(WellFormedStaff, MaxStaff)
    /\ halls_file = <<>>
    /\ ProgramStart

NextDirectory == ToggleStaffAllotment

SpecDirectory == InitDirectory /\ [][NextDirectory]_vars

\* ============================================================== properties
\* Vocabulary of the properties, written without the operators of the model.

Min(a, b) == IF a <= b THEN a ELSE b

Count(x, seq) == Cardinality({i \in DOMAIN seq : seq[i] = x})

\* The staff of all Assignments of an allotment list, in order.
RECURSIVE Placed(_)
Placed(allots) ==
    IF allots = <<>> THEN <<>> ELSE Head(allots).staff \o Placed(Tail(allots))

DistinctNames(seq) ==
    \A i, j \in DOMAIN seq : seq[i].staff_name = seq[j].staff_name => i = j

\* gender == FEMALE
IsFemale(s) ==
    "staff_gender" \in DOMAIN s /\ s.staff_gender \in {<<"F">>, <<"f">>, FEMALE_}

RequiredCount(room) == IF room.single_staff THEN 1 ELSE 2

IsEligible(room, s) == room.girls_only => IsFemale(s)

EligibleIn(room, pool) == SelectSeq(pool, LAMBDA s : IsEligible(room, s))

FirstN(seq, n) == SubSeq(seq, 1, Min(n, Len(seq)))

\* A name without the blanks around it.
Trimmed(name) ==
    LET solid == {i \in DOMAIN name : name[i] # " "}
        lo == CHOOSE i \in solid : \A j \in solid : i <= j
        hi == CHOOSE i \in solid : \A j \in solid : j <= i
    IN IF solid = {} THEN <<>> ELSE SubSeq(name, lo, hi)

ExclusionSet(xf) == IF xf.exists THEN Range(xf.names) ELSE {}

\* The Staff Directory minus every excluded name.
ExpectedPool(directory, xf) ==
    SelectSeq(directory, LAMBDA s : Trimmed(s.staff_name) \notin ExclusionSet(xf))

\* pool without the earliest occurrence of x
DropEarliest(pool, x) ==
    LET k == CHOOSE k \in DOMAIN pool :
                 pool[k] = x /\ \A j \in 1..(k - 1) : pool[j] # x
    IN [i \in 1..(Len(pool) - 1) |-> IF i < k THEN pool[i] ELSE pool[i + 1]]

RECURSIVE Remaining(_, _)
Remaining(pool, taken) ==
    IF taken = <<>> THEN pool
    ELSE Remaining(DropEarliest(pool, Head(taken)), Tail(taken))

\* The requirements an Assignment answers (room numbers are distinct within
\* a list).
RequirementsOf(c, a) ==
    {c.classes_list[i] : i \in {j \in DOMAIN c.classes_list :
                                   c.classes_list[j].room_no = a.room_no}}

Returned == call.called /\ ~call.raised

\* ---- C1 ----------------------------------------------------------------
\* C1 as claimed: in the list allocate_staff returns, no staff name occurs
\* twice, neither in two rooms nor within one room.
C1_NoStaffTwice == Returned => DistinctNames(Placed(call.allotments))

\* C1 (amended): no record of the pool is placed more often than it occurs in
\* the pool, and when the names of the pool are distinct no staff name
\* occurs twice in the returned list.
C1_NoRecordPlacedTwice ==
    Returned =>
        /\ \A s \in Range(Placed(call.allotments)) :
              Count(s, Placed(call.allotments)) <= Count(s, call.arg)
        /\ DistinctNames(call.arg) => DistinctNames(Placed(call.allotments))

C1_Witness ==
    /\ Returned
    /\ DistinctNames(call.arg)
    /\ Len(call.allotments) = 2
    /\ Len(Placed(call.allotments)) = 3

\* ---- C2 ----------------------------------------------------------------
\* C2: every staff member in the Assignment of a girls_only room is FEMALE.
C2_GirlsOnlyFemale ==
    Returned =>
        \A i \in DOMAIN call.allotments :
            \A room \in RequirementsOf(call, call.allotments[i]) :
                room.girls_only =>
                    \A k \in DOMAIN call.allotments[i].staff :
                        IsFemale(call.allotments[i].staff[k])

\* A girls_only room was served from a pool headed by a man.
C2_Witness ==
    /\ Returned
    /\ call.classes_list # <<>> /\ call.classes_list[1].girls_only
    /\ call.shuffled # <<>> /\ ~IsFemale(call.shuffled[1])
    /\ call.allotments # <<>>
    /\ call.allotments[1].room_no = call.classes_list[1].room_no

\* ---- C3 ----------------------------------------------------------------
\* C3: no room has more staff than required_count, 1 for a single_staff room
\* and 2 otherwise.
C3_AtMostRequired ==
    Returned =>
        \A i \in DOMAIN call.allotments :
            \A room \in RequirementsOf(call, call.allotments[i]) :
                Len(call.allotments[i].staff) <= RequiredCount(room)

\* A single_staff room took one of at least two available staff.
C3_Witness ==
    /\ Returned
    /\ call.classes_list # <<>> /\ call.classes_list[1].single_staff
    /\ ~call.classes_list[1].girls_only
    /\ Len(call.shuffled) >= 2
    /\ call.allotments # <<>> /\ Len(call.allotments[1].staff) = 1

\* ---- C4 ----------------------------------------------------------------
\* C4 as claimed: the returned list has one Assignment per room requirement,
\* in input order, a room without staff included with an empty staff list.
C4_OneAssignmentPerRoom ==
    Returned =>
        /\ Len(call.allotments) = Len(call.classes_list)
        /\ \A i \in DOMAIN call.allotments :
              call.allotments[i].room_no = call.classes_list[i].room_no

\* The rooms that found an eligible staff member in the pool.
StaffedRooms(c) ==
    SelectSeq(c.trace, LAMBDA t : EligibleIn(t.class_info, t.pool_before) # <<>>)

\* C4 (amended): the returned list has one Assignment for each room
\* requirement that found at least one eligible staff member, in input
\* order; a room that found none is left out, and no Assignment has an
\* empty staff list.
C4_OneAssignmentPerStaffedRoom ==
    Returned =>
        /\ Len(call.trace) = Len(call.classes_list)
        /\ Len(call.allotments) = Len(StaffedRooms(call))
        /\ \A i \in DOMAIN call.allotments :
              /\ call.allotments[i].room_no = StaffedRooms(call)[i].class_info.room_no
              /\ call.allotments[i].staff = StaffedRooms(call)[i].selected_staff
              /\ call.allotments[i].staff # <<>>

\* The first room found nobody and is left out, the second is there.
C4_Witness ==
    /\ Returned
    /\ Len(call.classes_list) = 2
    /\ Len(call.allotments) = 1
    /\ call.allotments[1].room_no = call.classes_list[2].room_no

\* ---- C5 ----------------------------------------------------------------
\* C5: each room gets min(required_count, eligible staff in the pool when the
\* room is processed) staff.
C5_CountIsMin ==
    call.called =>
        \A i \in DOMAIN call.trace :
            Len(call.trace[i].selected_staff) =
                Min(RequiredCount(call.trace[i].class_info),
                    Len(EligibleIn(call.trace[i].class_info,
                                   call.trace[i].pool_before)))

\* A girls_only room needing two found one woman among several staff.
C5_Witness ==
    /\ Returned
    /\ \E i \in DOMAIN call.trace :
          /\ call.trace[i].class_info.girls_only
          /\ ~call.trace[i].class_info.single_staff
          /\ Len(call.trace[i].pool_before) >= 2
          /\ Len(EligibleIn(call.trace[i].class_info, call.trace[i].pool_before)) = 1
          /\ Len(call.trace[i].selected_staff) = 1

\* ---- C6 ----------------------------------------------------------------
\* C6: the rooms draw from the Staff Directory minus every excluded name, and
\* nobody whose trimmed name is in the Exclusion Set is in an Assignment.
C6_ExcludedNeverPlaced ==
    Returned =>
        /\ call.pool_start = ExpectedPool(call.arg, call.excluded_file)
        /\ \A s \in Range(Placed(call.allotments)) :
              Trimmed(s.staff_name) \notin ExclusionSet(call.excluded_file)

\* A staff member excluded under the trimmed name only, others placed.
C6_Witness ==
    /\ Returned
    /\ call.allotments # <<>>
    /\ \E s \in Range(call.arg) :
          /\ Trimmed(s.staff_name) \in ExclusionSet(call.excluded_file)
          /\ s.staff_name \notin ExclusionSet(call.excluded_file)

\* ---- C7 ----------------------------------------------------------------
\* C7: rooms are processed in input order; room i finds the shuffled pool
\* without the staff rooms 1..i-1 took, and takes the first
\* min(required_count, .) eligible members of it, in that order.
C7_GreedyFront ==
    call.called =>
        /\ Len(call.trace) <= Len(call.classes_list)
        /\ ~call.raised => Len(call.trace) = Len(call.classes_list)
        /\ \A i \in DOMAIN call.trace :
              LET t == call.trace[i]
              IN /\ t.class_info = call.classes_list[i]
                 /\ t.pool_before =
                       IF i = 1 THEN call.shuffled
                       ELSE Remaining(call.trace[i - 1].pool_before,
                                      call.trace[i - 1].selected_staff)
                 /\ t.selected_staff =
                       FirstN(EligibleIn(t.class_info, t.pool_before),
                              RequiredCount(t.class_info))

\* The second room took from a pool headed by somebody it had to skip.
C7_Witness ==
    /\ Returned
    /\ Len(call.trace) = 2
    /\ call.trace[1].selected_staff # <<>>
    /\ call.trace[2].selected_staff # <<>>
    /\ ~IsEligible(call.trace[2].class_info, call.trace[2].pool_before[1])
    /\ call.shuffled # call.pool_start

\* ---- C8 ----------------------------------------------------------------
WellFormedArgs(c) ==
    /\ \A i \in DOMAIN c.arg : {"staff_name", "staff_gender"} \subseteq DOMAIN c.arg[i]
    /\ \A i \in DOMAIN c.classes_list :
          {"room_no", "girls_only", "single_staff"} \subseteq DOMAIN c.classes_list[i]

\* C8: on well-formed input allocate_staff returns a list, also with an empty
\* pool, no requirement, or a pool too small.
C8_NoRaiseOnWellFormed ==
    (call.called /\ WellFormedArgs(call)) => ~call.raised

\* A room was left short and the call returned.
C8_Witness ==
    /\ Returned
    /\ WellFormedArgs(call)
    /\ \E i \in DOMAIN call.trace :
          Len(call.trace[i].selected_staff) < RequiredCount(call.trace[i].class_info)

\* ---- C9 ----------------------------------------------------------------
RoomLacksKey(c) ==
    \E i \in DOMAIN c.classes_list :
        ~({"room_no", "girls_only", "single_staff"} \subseteq DOMAIN c.classes_list[i])

StaffLacks(c, key) == \E i \in DOMAIN c.arg : key \notin DOMAIN c.arg[i]

\* C9 as claimed: a room requirement lacking a key, or a staff record lacking
\* name or gender, makes the call fail.
C9_MalformedAlwaysFails ==
    (call.called /\ (RoomLacksKey(call) \/ StaffLacks(call, "staff_name")
                        \/ StaffLacks(call, "staff_gender")))
        => call.raised

\* C9 (amended): the call fails, and the failure reaches the caller, exactly
\* when a room requirement lacks a key or, with an exclusion file present, a
\* staff record lacks staff_name; a missing staff_gender is no failure.
C9_FailsIffLookupFails ==
    call.called =>
        (call.raised <=>
            (RoomLacksKey(call)
                \/ (call.excluded_file.exists /\ StaffLacks(call, "staff_name"))))

\* The second requirement lacks a key: the first room was served, the call
\* failed.
C9_Witness ==
    /\ call.called /\ call.raised
    /\ Len(call.classes_list) = 2
    /\ Len(call.trace) = 1
    /\ call.trace[1].selected_staff # <<>>

\* ---- C10 ---------------------------------------------------------------
\* C10: every date's call starts from the full exclusion-filtered Staff
\* Directory, and the loaded list is not shortened by any call.
C10_EveryDateFullPool ==
    /\ pc = "loop" => staff_list = staff_file
    /\ call.called =>
          /\ call.arg = staff_file
          /\ ~call.raised =>
                call.pool_start = ExpectedPool(staff_file, excluded_file)

\* The second date was served after the first one took the whole pool, with
\* no exclusion file.
C10_Witness ==
    /\ pc = "loop"
    /\ date_idx = 3
    /\ ~excluded_file.exists
    /\ staff_file # <<>>
    /\ Cardinality(DOMAIN allotments) = 2
    /\ \A d \in DOMAIN allotments :
          Len(Placed(allotments[d])) = Len(staff_file)


\* ------------------------------------------------------- the allocation run
\* C11: a run starts from an empty Allotment, every date it works off adds
\* the result of that date's allocation and changes no other entry, and
\* when it succeeds the Allotment, in memory and in data/allotment.json,
\* has an entry for each configured date and for no other date.
C11_FreshAllotmentPerDate ==
    [][/\ (pc = "idle" /\ pc' = "loop") => DOMAIN allotments' = {}
       /\ (pc = "loop" /\ allotments' # allotments)
            => LET date == settings_file.data.dates[date_idx]
               IN /\ DOMAIN allotments' = DOMAIN allotments \cup {date}
                  /\ date \notin DOMAIN allotments
                  /\ call'.date = date
                  /\ allotments'[date] = call'.allotments
                  /\ \A d \in DOMAIN allotments : allotments'[d] = allotments[d]
       /\ (pc = "loop" /\ outcome' = "success")
            => /\ DOMAIN allotments' = DOMAIN configurations'
               /\ DOMAIN allotments' = Range(settings_file'.data.dates)
               /\ allotment_file'.is_dict
               /\ allotment_file'.data = allotments']_vars

\* A run has worked off its only date and is about to write the file,
\* which holds the two dates of an earlier run.
C11_Witness ==
    /\ pc = "loop"
    /\ settings_file.data.dates = <<Date2>>
    /\ date_idx = 2
    /\ DOMAIN allotments = {Date2}
    /\ allotment_file.is_dict
    /\ DOMAIN allotment_file.data = {Date1, Date2}

\* ------------------------------------------------ the configuration store
IsDefaultConfig(c) ==
    /\ DOMAIN c = {"rooms", "settings"}
    /\ c.rooms = <<>>
    /\ DOMAIN c.settings =
          {"reporting_time", "assessment_name", "exam_time", "exam_details"}
    /\ \A k \in DOMAIN c.settings : c.settings[k] = ""

\* C12: get_date_config on a date without an entry returns the default
\* (no rooms, the four settings empty) and leaves the store as it was: the
\* date is not added, and when the caller changes the config it got, the
\* store is still as it was, so the next call returns the default again.
C12_UnsetGetIsDefaultAndPure ==
    [][/\ (last'.op = "get" /\ last'.date \notin DOMAIN configurations)
            => /\ ~last'.raised
               /\ IsDefaultConfig(last'.value)
               /\ configurations' = configurations
               /\ config_order' = config_order
       /\ (/\ last.op = "get"
           /\ last.date \notin DOMAIN configurations
           /\ last'.op = "change")
            => /\ configurations' = configurations
               /\ config_order' = config_order]_vars

\* The default was returned for a date that is not stored while another
\* date is, and the caller changed what it got.
C12_Witness ==
    /\ last.op = "change"
    /\ last.prev.op = "get"
    /\ last.date \notin DOMAIN configurations
    /\ configurations # EmptyDict

\* C13: get_date_config returns a config and does not raise, whatever calls
\* of load_configurations, set_date_config and clear_configurations came
\* before it.
C13_GetNeverFails == last.op = "get" => ~last.raised /\ DOMAIN last.value # {}

\* C14: get_date_config(date) right after a set_date_config(date, cfg) that
\* returned true returns cfg.
C14_GetAfterSet ==
    (/\ last.op = "get"
     /\ last.prev.op = "set"
     /\ last.prev.ok
     /\ last.prev.date = last.date)
        => ~last.raised /\ last.value = last.prev.config

\* A filled config was set with success on a date and read back.
C14_Witness ==
    /\ last.op = "get"
    /\ last.prev.op = "set"
    /\ last.prev.ok
    /\ last.prev.date = last.date
    /\ last.prev.config = [rooms |-> <<GirlsRoom>>, settings |-> FilledSettings]

SameFile(a, b) == a.is_dict = b.is_dict /\ a.data = b.data

\* C15: when the write fails, set_date_config returns false and does not
\* raise; the store in memory holds the new entry and all the others, and
\* a get_date_config of that date that follows returns it; the file holds
\* what it held or what a broken write left, never the new state.
C15_FailedWriteKeepsMemory ==
    [][/\ (last'.op = "set" /\ last'.w # "ok")
            => /\ ~last'.raised
               /\ ~last'.ok
               /\ DOMAIN configurations' = DOMAIN configurations \cup {last'.date}
               /\ configurations'[last'.date] = last'.config
               /\ \A d \in DOMAIN configurations \ {last'.date} :
                     configurations'[d] = configurations[d]
               /\ \/ SameFile(classes_file', classes_file)
                  \/ ~classes_file'.is_dict /\ classes_file'.data # <<>>
       /\ (/\ last.op = "set"
           /\ last.w # "ok"
           /\ last'.op = "get"
           /\ last'.date = last.date)
            => ~last'.raised /\ last'.value = last.config]_vars

\* The write of a set_date_config failed after an earlier one had written
\* the file.
C15_Witness ==
    /\ last.op = "set"
    /\ last.w # "ok"
    /\ ~last.ok
    /\ last.prev.op = "set"
    /\ last.prev.ok
    /\ last.date \in DOMAIN configurations

\* C16: set_date_config(date, cfg) makes cfg the entry of date, with the
\* keys of cfg and no others, and the entries and the order of the other
\* dates are what they were.
C16_SetReplacesOneEntry ==
    [][(last'.op = "set" /\ ~last'.raised)
          => /\ DOMAIN configurations' = DOMAIN configurations \cup {last'.date}
             /\ configurations'[last'.date] = last'.config
             /\ DOMAIN configurations'[last'.date] = DOMAIN last'.config
             /\ \A d \in DOMAIN configurations \ {last'.date} :
                   configurations'[d] = configurations[d]
             /\ \A i \in DOMAIN config_order : config_order'[i] = config_order[i]]_vars

\* A config without settings replaced an entry that had settings, while
\* another date had an entry.
C16_Witness ==
    /\ last.op = "set"
    /\ last.stored
    /\ last.config = [rooms |-> <<>>]
    /\ last.prev.op = "set"
    /\ last.prev.date = last.date
    /\ "settings" \in DOMAIN last.prev.config
    /\ \E d \in DOMAIN configurations : d # last.date

\* C18: after clear_configurations there is no configured date, every date
\* gets the default, and data/classes.json holds the empty store.
C18_ClearDropsAndPersists ==
    last.op = "clear"
       => /\ configurations = EmptyDict
          /\ config_order = <<>>
          /\ classes_file.is_dict
          /\ classes_file.data.keys = <<>>

\* The value of the digits of s from position a to position b.
Number(s, a, b) ==
    LET F[k \in (a - 1)..b] ==
            IF k = a - 1 THEN 0 ELSE 10 * F[k - 1] + (Ord(s[k]) - 48)
    IN F[b]

\* Day d1 is before day d2 in the calendar.
Earlier(d1, d2) ==
    LET y1 == Number(d1, 1, 4)  y2 == Number(d2, 1, 4)
        m1 == Number(d1, 6, 7)  m2 == Number(d2, 6, 7)
        a1 == Number(d1, 9, 10) a2 == Number(d2, 9, 10)
    IN \/ y1 < y2
       \/ y1 = y2 /\ m1 < m2
       \/ y1 = y2 /\ m1 = m2 /\ a1 < a2

\* s is before t in the dictionary order of their characters.
LexBefore(s, t) ==
    \E i \in 1..10 :
       /\ \A j \in 1..(i - 1) : s[j] = t[j]
       /\ Ord(s[i]) < Ord(t[i])

\* C19: get_all_dates and get_configured_dates return the stored dates,
\* each once, every one lexicographically before the next, which is the
\* order of the calendar.
C19_DatesSortedOnce ==
    (last.op \in {"all_dates", "configured_dates"} /\ ~last.raised)
       => /\ Range(last.dates) = DOMAIN configurations
          /\ Len(last.dates) = Cardinality(DOMAIN configurations)
          /\ \A i \in 1..(Len(last.dates) - 1) :
                /\ LexBefore(last.dates[i], last.dates[i + 1])
                /\ Earlier(last.dates[i], last.dates[i + 1])

\* The later date was stored first, and both methods were called.
C19_Witness ==
    /\ last.op = "configured_dates"
    /\ last.prev.op = "all_dates"
    /\ config_order = <<Date2, Date1>>
    /\ last.dates = <<Date1, Date2>>


\* ------------------------------------ validate_config and the requirements
C17_RoomComplete(room) ==
    /\ "room_no" \in DOMAIN room
    /\ "girls_only" \in DOMAIN room
    /\ "single_staff" \in DOMAIN room

C17_SettingsComplete(settings) ==
    /\ "reporting_time" \in DOMAIN settings
    /\ "assessment_name" \in DOMAIN settings
    /\ "exam_time" \in DOMAIN settings
    /\ "exam_details" \in DOMAIN settings

\* One of the five defects the claim lists.
C17_Defective(c) ==
    \/ c.kind # "dict"
    \/ "rooms" \notin DOMAIN c.data
    \/ /\ "rooms" \in DOMAIN c.data
       /\ c.data["rooms"].kind = "list"
       /\ \E i \in DOMAIN c.data["rooms"].data :
             ~C17_RoomComplete(c.data["rooms"].data[i])
    \/ "settings" \notin DOMAIN c.data
    \/ /\ "settings" \in DOMAIN c.data
       /\ c.data["settings"].kind = "dict"
       /\ ~C17_SettingsComplete(c.data["settings"].data)

\* A dict with a list of complete rooms and complete settings.
C17_Complete(c) ==
    /\ c.kind = "dict"
    /\ DOMAIN c.data = {"rooms", "settings"}
    /\ c.data["rooms"].kind = "list"
    /\ \A i \in DOMAIN c.data["rooms"].data :
          C17_RoomComplete(c.data["rooms"].data[i])
    /\ c.data["settings"].kind = "dict"
    /\ C17_SettingsComplete(c.data["settings"].data)

\* C17: validate_config does not raise; it returns false and a message
\* for a config that is no dict, has no rooms, has a room without one of
\* its three keys, has no settings, or has settings without one of the
\* four fields; it returns true for a config that has all of them.
C17_ValidateConfig ==
    last.op = "validate_config"
       => /\ ~last.raised
          /\ C17_Defective(arg_config) => ~last.ok /\ last.message # ""
          /\ C17_Complete(arg_config) => last.ok

\* A config with two complete rooms whose settings lack only exam_details
\* was rejected.
C17_Witness ==
    /\ last.op = "validate_config"
    /\ ~last.ok
    /\ arg_config.kind = "dict"
    /\ DOMAIN arg_config.data = {"rooms", "settings"}
    /\ arg_config.data["rooms"].kind = "list"
    /\ Len(arg_config.data["rooms"].data) = 2
    /\ \A i \in 1..2 : C17_RoomComplete(arg_config.data["rooms"].data[i])
    /\ arg_config.data["settings"].kind = "dict"
    /\ DOMAIN arg_config.data["settings"].data =
          {"reporting_time", "assessment_name", "exam_time"}

\* The staff the selected classes among the first k need: in all, and in
\* the girls only rooms.
RECURSIVE C20_Sum(_, _, _)
C20_Sum(classes, k, girls_only) ==
    IF k = 0 THEN 0
    ELSE C20_Sum(classes, k - 1, girls_only) +
         (IF classes[k].selected /\ (~girls_only \/ classes[k].girls_only)
          THEN (IF classes[k].single_staff THEN 1 ELSE 2)
          ELSE 0)

\* C20: the counts returned for the selected rooms are the sum of 1 or 2
\* per room, that sum over the girls only rooms, and their difference.
C20_AggregatorSums ==
    last.op \in {"update_requirements", "calculate_staff_requirements"}
       => LET n == Len(arg_class_modifiers)
              total == C20_Sum(arg_class_modifiers, n, FALSE)
              female == C20_Sum(arg_class_modifiers, n, TRUE)
          IN /\ last.counts = <<total, female, total - female>>
             /\ last.counts[3] + last.counts[2] = last.counts[1]
             /\ 0 <= last.counts[2]
             /\ last.counts[2] <= last.counts[1]

\* C21: in every configuration of the store, after any sequence of
\* save_selected_dates and save_configuration, no two rooms have the same
\* room_no.
C21_RoomNosUnique ==
    \A d \in DOMAIN configurations :
       \A i, j \in DOMAIN configurations[d].rooms :
          i # j => configurations[d].rooms[i].room_no #
                   configurations[d].rooms[j].room_no

\* A class that the halls list twice was selected and saved for a date.
C21_Witness ==
    /\ \E i, j \in DOMAIN halls_file : i # j /\ halls_file[i] = halls_file[j]
    /\ \E d \in DOMAIN configurations : configurations[d].rooms # <<>>

\* The gender cells that spell MALE (M, MALE, MR) and FEMALE (F, FEMALE,
\* MS, MRS), and what the directory holds for them.
C22_MaleCells ==
    {Cell(<<"M">>), Cell(<<"m", "a", "l", "e">>), Cell(<<" ", "M", "r">>)}

C22_FemaleCells ==
    {Cell(<<"F">>), Cell(<<"F", "e", "m", "a", "l", "e", " ">>),
     Cell(<<"m", "s">>), Cell(<<"M", "R", "S">>)}

C22_Gender(cell) ==
    IF cell \in C22_MaleCells THEN <<"M">>
    ELSE IF cell \in C22_FemaleCells THEN <<"F">> ELSE <<>>

C22_Accepted(row) ==
    C22_Gender(row.Gender) # <<>> /\ row.Name # Cell(<<" ">>)

\* C22: every record upload_staff_file puts in the directory has a
\* non-empty name and the gender its cell spells, MALE or FEMALE; a row
\* whose gender spells neither is not stored.
C22_UploadNormalises ==
    /\ \A i \in DOMAIN staff_file :
          /\ staff_file[i].staff_name # <<>>
          /\ staff_file[i].staff_gender \in {<<"M">>, <<"F">>}
    /\ staff_file # <<>> =>
          LET kept == SelectSeq(arg_workbook.rows, C22_Accepted)
          IN /\ Len(staff_file) = Len(kept)
             /\ \A i \in DOMAIN kept :
                   staff_file[i].staff_gender = C22_Gender(kept[i].Gender)

\* An upload stored a row whose gender cell reads "ms" and left a row out.
C22_Witness ==
    /\ last.op = "upload_staff_file" /\ last.ok
    /\ Len(staff_file) < Len(arg_workbook.rows)
    /\ \E i \in DOMAIN arg_workbook.rows :
          arg_workbook.rows[i].Gender = Cell(<<"m", "s">>)

C24_StoredConfigsValid ==
    \A d \in DOMAIN configurations :
       /\ {"rooms", "settings"} \subseteq DOMAIN configurations[d]
       /\ \A i \in DOMAIN configurations[d].rooms :
             C17_RoomComplete(configurations[d].rooms[i])
       /\ C17_SettingsComplete(configurations[d].settings)
       /\ ValidateConfig(JsonObject(
             [rooms |-> JsonList(configurations[d].rooms),
              settings |-> JsonObject(configurations[d].settings)])).ok

\* ---- C25, C27 ----------------------------------------------------------
C25_Women(seq) == Cardinality({i \in DOMAIN seq : IsFemale(seq[i])})

\* The staff the rooms before room j took.
C25_TakenBefore(trace, j) ==
    LET F[k \in 0..(j - 1)] ==
            IF k = 0 THEN <<>> ELSE F[k - 1] \o trace[k].selected_staff
    IN F[j - 1]

\* What the girls_only rooms of a list require in total.
C25_GirlsRequired(classes_list) ==
    LET F[k \in 0..Len(classes_list)] ==
            IF k = 0 THEN 0
            ELSE F[k - 1] + (IF classes_list[k].girls_only
                             THEN RequiredCount(classes_list[k]) ELSE 0)
    IN F[Len(classes_list)]

\* C25: the rooms are served in the order of the list; a room open to
\* everybody takes whoever heads the pool, women included, and a girls_only
\* room gets what the rooms before it left of the women, never more: what an
\* earlier room took is not given back to a later one.
C25_EarlierRoomShortsLater ==
    Returned =>
        \A j \in DOMAIN call.trace :
           LET t == call.trace[j]
           IN /\ t.class_info = call.classes_list[j]
              /\ ~t.class_info.girls_only =>
                    t.selected_staff =
                       FirstN(t.pool_before, RequiredCount(t.class_info))
              /\ t.class_info.girls_only =>
                    Len(t.selected_staff) =
                       Min(RequiredCount(t.class_info),
                           C25_Women(call.pool_start) -
                           C25_Women(C25_TakenBefore(call.trace, j)))

\* The pool has as many women as the girls_only rooms require, an earlier
\* room open to everybody took one, and a later girls_only room is short.
C25_Witness ==
    /\ Returned
    /\ C25_Women(call.pool_start) >= C25_GirlsRequired(call.classes_list)
    /\ \E i, j \in DOMAIN call.trace :
          /\ i < j
          /\ ~call.trace[i].class_info.girls_only
          /\ C25_Women(call.trace[i].selected_staff) > 0
          /\ call.trace[j].class_info.girls_only
          /\ Len(call.trace[j].selected_staff) <
                RequiredCount(call.trace[j].class_info)

\* What the rooms of a list require in total.
C27_TotalRequired(classes_list) ==
    LET F[k \in 0..Len(classes_list)] ==
            IF k = 0 THEN 0 ELSE F[k - 1] + RequiredCount(classes_list[k])
    IN F[Len(classes_list)]

\* C27: everybody assigned is in the pool that is left of the input after
\* the exclusions; the assigned and the staff left in the pool at the end
\* are that pool, record for record; and the number assigned is at most the
\* size of the pool and at most what the rooms require.
C27_PoolConserved ==
    Returned =>
        LET placed == Placed(call.allotments)
            pool == ExpectedPool(call.arg, call.excluded_file)
        IN /\ \A s \in Range(placed) : s \in Range(pool)
           /\ \A s \in Range(pool) \cup Range(placed) \cup Range(call.staff_list) :
                 Count(s, placed) + Count(s, call.staff_list) = Count(s, pool)
           /\ Len(placed) <= Min(Len(pool), C27_TotalRequired(call.classes_list))

\* Somebody is excluded, somebody assigned, somebody left over.
C27_Witness ==
    /\ Returned
    /\ Len(ExpectedPool(call.arg, call.excluded_file)) < Len(call.arg)
    /\ call.allotments # <<>>
    /\ call.staff_list # <<>>

\* ---- C28 ---------------------------------------------------------------
\* C28: generate_allotment_pdf writes the allotment file only after the
\* last date, with the results of the whole run; a run that fails at a
\* date, in allocate_staff or in generate_pdf, leaves the file as it was.
C28_NoPartialAllotmentFile ==
    [][/\ allotment_file' # allotment_file =>
             /\ pc = "loop" /\ pc' = "idle" /\ outcome' = "success"
             /\ date_idx > Len(settings_file.data.dates)
             /\ allotment_file' = [is_dict |-> TRUE, data |-> allotments]
       /\ (pc = "loop" /\ outcome' = "failed") =>
             allotment_file' = allotment_file]_vars

\* A run failed in allocate_staff while the file holds an earlier run's
\* results.
C28_Witness ==
    /\ outcome = "failed"
    /\ call.called /\ call.raised
    /\ allotment_file.is_dict
    /\ DOMAIN allotment_file.data # {}

\* ---- C29, C30 ----------------------------------------------------------
C29_DefaultConfig ==
    [rooms |-> <<>>,
     settings |-> [reporting_time |-> "", assessment_name |-> "",
                   exam_time |-> "", exam_details |-> ""]]

C30_SaveConfiguresPending ==
    [][(pc = "idle" /\ last'.op = "save_configuration") =>
          IF last'.ok
          THEN LET D == {last'.dates[i] : i \in DOMAIN last'.dates}
                   pending == {selected_dates[i] : i \in DOMAIN selected_dates}
                   left == {selected_dates'[i] : i \in DOMAIN selected_dates'}
               IN /\ D # {} /\ D \subseteq pending
                  /\ last'.value # <<>>
                  /\ DOMAIN configurations' = DOMAIN configurations \cup D
                  /\ \A d \in D : configurations'[d].rooms = last'.value
                  /\ \A d \in DOMAIN configurations \ D :
                        configurations'[d] = configurations[d]
                  /\ left = pending \ D
                  /\ Len(selected_dates') < Len(selected_dates)
                  /\ page' = IF left = {} THEN "details" ELSE "classes"
          ELSE /\ configurations' = configurations
               /\ config_order' = config_order
               /\ selected_dates' = selected_dates
               /\ page' = page]_vars

\* Two rooms were saved for one of two pending dates: the class page is
\* shown again.
C30_Witness ==
    /\ last.op = "save_configuration" /\ last.ok
    /\ Len(last.value) = 2
    /\ Len(selected_dates) = 1
    /\ page = "classes"
====
